---- MODULE Spec2Model ----
(***************************************************************************)
(* River (python): durable, resumable streams.                             *)
(*                                                                         *)
(* One run of one stream definition is modelled: the caller facade         *)
(* (StreamCaller.start), the provider generator (start_stream), the        *)
(* background task (run_stream) in which the user runner executes, the     *)
(* stream helper the runner calls, the Redis stream that is the run's log, *)
(* and the resume readers (resume_stream).  The FastAPI adapter in front   *)
(* of the run, and several runs of one stream definition side by side,     *)
(* and a runner that calls the helper from concurrent tasks, have          *)
(* specifications of their own (SpecHttp, SpecRuns, SpecTasks).            *)
(*                                                                         *)
(* Scheduling is asyncio's: one task runs at a time and control changes    *)
(* hands only at an await that really suspends.  asyncio.Queue() is        *)
(* unbounded, so "await queue.put(x)" never suspends; an await on the      *)
(* Redis client and asyncio.sleep do.  rpc = "runner" says that the        *)
(* run_stream task holds the event loop, executing runner code; the other  *)
(* tasks of the loop step only in the other positions, all of which are    *)
(* awaits.  Every action runs one task from one await to its next.         *)
(***************************************************************************)
EXTENDS Integers, Sequences, FiniteSets, TLC

(* ---------------------------- bounds ----------------------------------- *)
\* number of helper calls / sleeps a runner performs at most
MaxOps == 2
\* chunk payloads are 1..MaxPayload
MaxPayload == 2
\* number of Redis writes (xadd or json.dumps) that may fail in a behaviour
MaxFailures == 1
\* resume_stream's iteration cap (max_attempts = 1000 in the source, scaled)
max_attempts == 3
\* xread's per-read count cap (count=10 in the source, scaled)
xread_count == 2
\* number of helper calls / sleeps of a runner that no resume reader follows
MaxLiveOps == 3
\* number of helper calls / sleeps of a runner started through the adapter
MaxHttpOps == 1

\* runs started side by side, and helper calls of each of their runners
MaxRuns == 2
MaxRunChunks == 2
\* tasks a runner starts side by side, each making one helper call
MaxTasks == 3

Payloads == 1..MaxPayload
TaskIx == 1..MaxTasks
\* the resume readers: reader 1 is started at any time after stream_start,
\* reader 2 after reader 1 and after the run_stream task has finished, so
\* that two resumes of a finished run overlap in every way
Resumers == {1, 2}
Providers == {"default", "redis"}

(* ---------------------------- items ------------------------------------ *)
\* the stream definition's storage id and the uuid4 of the run
stream_storage_id == "sid"
stream_run_id == "run1"

\* RedisRiverProvider.start_stream builds the token with router_stream_key ""
ResumptionToken(pid) ==
    << pid, "", stream_storage_id, stream_run_id >>

NoToken == << "-", "-", "-", "-" >>

\* CallerStreamItem, one record shape for every item:
\*   type    "chunk" | "special" | "aborted"
\*   special the special chunk's type, "" for the others
\*   val     the chunk payload, or total_chunks of stream_end, else 0
\*   error   error_type of the serialized RiverError, "" when there is none
\*   run_id  stream_run_id of stream_start, "" for the others
\*   token   encoded_resumption_token of stream_start, NoToken when absent
Item(t, s, v, e, r, k) ==
    [type |-> t, special |-> s, val |-> v, error |-> e, run_id |-> r, token |-> k]

ChunkItem(p) == Item("chunk", "", p, "", "", NoToken)
StreamErrorItem(e) == Item("special", "stream_error", 0, e, "", NoToken)
StreamFatalErrorItem(e) == Item("special", "stream_fatal_error", 0, e, "", NoToken)
StreamEndItem(n) == Item("special", "stream_end", n, "", "", NoToken)
AbortedItem == Item("aborted", "", 0, "", "", NoToken)
\* the None the producers put on the queue to signal completion
NoneItem == Item("None", "", 0, "", "", NoToken)

IsChunk(it) == it.type = "chunk"
IsTerminal(it) ==
    it.type = "special" /\ it.special \in {"stream_end", "stream_fatal_error"}

\* error types a runner passes to append_error / send_fatal_error_and_close
UserErrors == {"UNKNOWN"}

(* ------------------------ several runs --------------------------------- *)
\* the runs are told apart by the message of their input
RunIx == 1..MaxRuns

\* values uuid.uuid4() returns
uuids == << "run1", "run2", "run3", "run4" >>
RunIds == {uuids[n] : n \in 1..MaxRuns}

\* the locals of one call of start_stream, before the call
NoRun ==
    [cpc |-> "init", rpc |-> "none", stream_run_id |-> "", queue |-> << >>,
     live |-> << >>, nops |-> 0, chunk_count |-> 0]

\* RedisRiverProvider._make_stream_key with every run of a stream definition
\* given one key
make_stream_key_per_stream(sid, rid) ==
    << "river:stream:", sid, "" >>

\* RedisRiverProvider._make_stream_key: f"{key_prefix}{storage_id}:{run_id}"
make_stream_key(sid, rid) ==
    << "river:stream:", sid, rid >>

\* the keys start_stream can write under
StreamKeys == {make_stream_key(stream_storage_id, rid) : rid \in RunIds}

(* ------------------------ the Redis stream ----------------------------- *)
\* an entry of the Redis stream: field "data" holds json.dumps({"item": item}),
\* field "end" is the terminal marker
\* json.dumps({"item": item}) / json.loads(data)["item"]: the encoded form is
\* the wrapping object; decoding takes the "item" member out again
JsonDumps(it) == [item |-> it]
JsonLoads(data) == data.item

DataEntry(it) == [field |-> "data", data |-> JsonDumps(it)]
EndEntry == [field |-> "end", data |-> JsonDumps(NoneItem)]

\* the decoded items of the data entries of a stream, in stream order
LogItems(l) ==
    LET d == SelectSeq(l, LAMBDA e : e.field = "data")
    IN  [i \in 1..Len(d) |-> JsonLoads(d[i].data)]

(* ------------------- input schema, router, requests -------------------- *)
\* input_data is the set of fields it gives (with values of the right type);
\* the stream's input model is the tests' ChatInput: prompt is required,
\* count has a default
Inputs == SUBSET {"prompt", "count"}
Validate(inp) == "prompt" \in inp

\* the keys of the router: create_river_router({"chat": stream})
RouterKeys == {"chat"}

\* a field a JSON body or object does not have
Missing == "<missing>"

(* resumption token: a dict of the four fields; a field the dict does not  *)
(* have is Missing                                                         *)
TokenFields ==
    {"provider_id", "router_stream_key", "stream_storage_id", "stream_run_id"}

\* the dict RedisRiverProvider.start_stream builds
TokenDict(t) ==
    [f \in TokenFields |->
        CASE f = "provider_id" -> t[1]
          [] f = "router_stream_key" -> t[2]
          [] f = "stream_storage_id" -> t[3]
          [] f = "stream_run_id" -> t[4]]

\* a JSON text: an object (of token fields), an array, or no JSON at all
NoObject == [f \in TokenFields |-> Missing]
JsonObject(d) == [kind |-> "object", obj |-> d]
JsonArray == [kind |-> "array", obj |-> NoObject]
NotJson == [kind |-> "garbage", obj |-> NoObject]

\* a string of base-64: the text its alphabet characters carry, whether its
\* padding is right, whether it holds characters outside the alphabet
b64encode(text) == [text |-> text, pad |-> TRUE, junk |-> FALSE]

\* base64.b64decode(s) with validate=False: characters outside the alphabet
\* are discarded, wrong padding raises binascii.Error
Raises(exc) == [ok |-> FALSE, exc |-> exc, val |-> NotJson]
Returns(v) == [ok |-> TRUE, exc |-> "", val |-> v]
b64decode(str) ==
    IF str.pad THEN Returns(str.text) ELSE Raises("binascii.Error")

\* json.loads
json_loads(text) ==
    IF text.kind = "garbage" THEN Raises("JSONDecodeError") ELSE Returns(text)

\* encode_resumption_token(token): base64 of json.dumps(token)
encode_resumption_token(token) == b64encode(JsonObject(token))

\* decode_resumption_token(encoded): b64decode, json.loads and
\* ResumptionToken(**data); ResumptionToken is a TypedDict, so the call is
\* dict(**data): it raises TypeError when data is not a mapping and checks
\* no field.  Every exception is re-raised as ValueError.
decode_resumption_token(encoded) ==
    LET b == b64decode(encoded)
        j == json_loads(b.val)
    IN  IF ~b.ok \/ ~j.ok \/ j.val.kind # "object"
        THEN Raises("ValueError")
        ELSE Returns(j.val)

\* the resume keys a client presents: the encoding of every dict over the
\* token fields (fields missing or not), of an array and of non-JSON, and
\* encodings of tokens with the padding cut or with stray characters
TokenValues(f) ==
    CASE f = "provider_id" -> {"redis", Missing}
      [] f = "router_stream_key" -> {"", "chat", Missing}
      [] f = "stream_storage_id" -> {stream_storage_id, Missing}
      [] f = "stream_run_id" -> {stream_run_id, "gone", Missing}
TokenDicts == {d \in [TokenFields -> {"redis", "", "chat", stream_storage_id,
                                      stream_run_id, "gone", Missing}] :
                 \A f \in TokenFields : d[f] \in TokenValues(f)}
ChatToken == [TokenDict(ResumptionToken("redis")) EXCEPT !["router_stream_key"] = "chat"]

\* a finished run of another stream definition that keeps its log in the
\* same Redis: storage id and run id of its stream key, and its entries
other_storage_id == "other"
other_run_id == "run9"
other_chunk == ChunkItem(MaxPayload + 1)
other_log ==
    << DataEntry(other_chunk), DataEntry(StreamEndItem(1)), EndEntry >>
\* the token the other stream's run handed out, sent to this stream's route,
\* and this run's token with the id of another provider
OtherStreamToken ==
    [ChatToken EXCEPT !["stream_storage_id"] = other_storage_id,
                      !["stream_run_id"] = other_run_id]
OtherProviderToken == [ChatToken EXCEPT !["provider_id"] = "default"]
ResumeKeys ==
    {b64encode(JsonObject(d)) : d \in TokenDicts}
        \cup {b64encode(JsonObject(OtherStreamToken)),
              b64encode(JsonObject(OtherProviderToken))}
        \cup {b64encode(JsonArray), b64encode(NotJson)}
        \cup {[b64encode(JsonObject(d)) EXCEPT !.pad = FALSE] :
                    d \in {ChatToken, TokenDict(ResumptionToken("redis"))}}
        \cup {[b64encode(JsonObject(d)) EXCEPT !.junk = TRUE] :
                    d \in {ChatToken, TokenDict(ResumptionToken("redis"))}}

\* no request made yet; status 0 is "not answered"
NoPost == [router_stream_key |-> Missing, has_input |-> FALSE, status |-> 0]
NoResumeKey == [text |-> NotJson, pad |-> TRUE, junk |-> FALSE]
NoGet == [resumeKey |-> NoResumeKey, present |-> FALSE, status |-> 0, error |-> ""]

(* ---------------------------- state ------------------------------------ *)
VARIABLES
    tasks,        \* per task the runner started: position of its helper call
    runs,         \* the runs started side by side from one stream definition
    redis,        \* the Redis streams of those runs, by key
    provider,     \* the stream definition's provider: "default" or "redis"
    runner_ops,   \* operations the runner of this run performs at most
    input,        \* input_data handed to StreamCaller.start
    post,         \* the POST request to the start endpoint and its answer
    get,          \* the GET request to the resume endpoint and its answer
    cpc,          \* position of StreamCaller.start / start_stream (the consumer)
    live,         \* items start_stream has yielded to the caller facade
    queue,        \* start_stream's asyncio.Queue
    chunk_count,  \* start_stream's chunk_count
    rpc,          \* position of the run_stream task
    pend,         \* the item run_stream / the helper is in the middle of emitting
    nops,         \* operations the runner has performed
    emitted,      \* history: items in the order their emission was invoked
    log,          \* the Redis stream under the run's key
    failures,     \* Redis writes that have failed
    aborted,      \* AbortSignal._aborted of the run's context
    rs,           \* per resume reader: position of resume_stream
    last_id,      \* per resume reader: index of the last entry read ("0-0" is 0)
    attempts,     \* per resume reader: attempts
    rout,         \* per resume reader: items resume_stream has yielded
    rlate         \* history: the reader was started after run_stream finished

vars == << tasks, runs, redis, provider, runner_ops, input, post, get, cpc, live, queue, chunk_count, rpc, pend, nops,
           emitted, log, failures, aborted, rs, last_id, attempts, rout, rlate >>

resumeVars == << rs, last_id, attempts, rout, rlate >>

InitRun(n) ==
    /\ tasks = [t \in TaskIx |-> "none"]
    /\ runs = [i \in RunIx |-> NoRun]
    /\ redis = [key \in StreamKeys |-> << >>]
    /\ provider \in Providers
    /\ runner_ops = n
    /\ input = {"prompt"}
    /\ post = NoPost
    /\ get = NoGet
    /\ cpc = "init"
    /\ live = << >>
    /\ queue = << >>
    /\ chunk_count = 0
    /\ rpc = "none"
    /\ pend = NoneItem
    /\ nops = 0
    /\ emitted = << >>
    /\ log = << >>
    /\ failures = 0
    /\ aborted = FALSE
    /\ rs = [r \in Resumers |-> "idle"]
    /\ last_id = [r \in Resumers |-> 0]
    /\ attempts = [r \in Resumers |-> 0]
    /\ rout = [r \in Resumers |-> << >>]
    /\ rlate = [r \in Resumers |-> FALSE]

Init == InitRun(MaxOps)

\* a run whose runner performs up to MaxLiveOps operations; it is followed
\* on the live path only
InitLive == InitRun(MaxLiveOps)

\* StreamStartItem with the token on the stream_start of either provider
StreamStartItem_token_always ==
    Item("special", "stream_start", 0, "", stream_run_id, ResumptionToken(provider))

\* the stream_start item of the run: the Redis provider adds the token
StreamStartItem ==
    IF provider = "redis"
    THEN Item("special", "stream_start", 0, "", stream_run_id, ResumptionToken("redis"))
    ELSE Item("special", "stream_start", 0, "", stream_run_id, NoToken)

\* what the subscriber of StreamCaller.start has received: the facade passes
\* the provider's items on, until it finds the abort signal set, when it
\* yields aborted in place of the item it was handed and stops
Out ==
    IF cpc = "aborted" \/ (cpc = "closed" /\ aborted)
    THEN SubSeq(live, 1, Len(live) - 1) \o << AbortedItem >>
    ELSE live

(* ------------------- start path: facade and provider ------------------- *)
\* StartStream with the task created before stream_start is handed out:
\* stream_start goes through the queue like every other item
StartStream_task_first ==
    /\ cpc = "init"
    /\ queue' = << StreamStartItem >>
    /\ rpc' = "new"
    /\ cpc' = "drain"
    /\ UNCHANGED << tasks, runs, redis, provider, runner_ops, input, post, get, live, chunk_count, pend, nops, emitted, log,
                    failures, aborted >>
    /\ UNCHANGED resumeVars

\* StartStream without the validation of input_data
StartStream_unvalidated ==
    /\ cpc = "init"
    /\ live' = << StreamStartItem >>
    /\ cpc' = "started"
    /\ UNCHANGED << tasks, runs, redis, provider, runner_ops, input, post, get, queue, chunk_count,
                    rpc, pend, nops, emitted, log, failures, aborted >>
    /\ UNCHANGED resumeVars

\* StreamCaller.start with valid input: the context is built and the
\* provider's generator runs to its first yield, stream_start.  The abort
\* signal was created in this call and is not set.
StartStream ==
    /\ cpc = "init"
    /\ Validate(input)
    /\ live' = << StreamStartItem >>
    /\ cpc' = "started"
    /\ UNCHANGED << tasks, runs, redis, provider, runner_ops, input, post, get, queue, chunk_count, rpc, pend, nops,
                    emitted, log, failures, aborted >>
    /\ UNCHANGED resumeVars

\* StreamCaller.start with input the input model rejects: RiverError
\* VALIDATION is raised at the first step of the generator
StartStream_rejected ==
    /\ cpc = "init"
    /\ ~Validate(input)
    /\ cpc' = "rejected"
    /\ UNCHANGED << tasks, runs, redis, provider, runner_ops, input, post, get, live, queue,
                    chunk_count, rpc, pend, nops, emitted, log, failures, aborted >>
    /\ UNCHANGED resumeVars

\* the subscriber asks for the next item: the generator goes on after the
\* yield, asyncio.create_task(run_stream()) schedules the task and the loop
\* awaits queue.get() on the empty queue
CreateTask ==
    /\ cpc = "started"
    /\ cpc' = "drain"
    /\ rpc' = "new"
    /\ UNCHANGED << tasks, runs, redis, provider, runner_ops, input, post, get, live, queue, chunk_count, pend, nops,
                    emitted, log, failures, aborted >>
    /\ UNCHANGED resumeVars

\* DrainItem with the aborted item also written to the run's Redis stream
DrainItem_logs_aborted ==
    /\ cpc = "drain"
    /\ queue # << >>
    /\ rpc # "runner"
    /\ Head(queue) # NoneItem
    /\ queue' = Tail(queue)
    /\ chunk_count' = IF IsChunk(Head(queue)) THEN chunk_count + 1 ELSE chunk_count
    /\ live' = Append(live, Head(queue))
    /\ cpc' = IF aborted THEN "aborted" ELSE "drain"
    /\ log' = IF aborted THEN Append(log, DataEntry(AbortedItem)) ELSE log
    /\ UNCHANGED << tasks, runs, redis, provider, runner_ops, input, post, get, rpc, pend, nops,
                    emitted, failures, aborted >>
    /\ UNCHANGED resumeVars

\* DrainItem with a facade that passes every item on, abort signal or not
DrainItem_ignores_abort ==
    /\ cpc = "drain"
    /\ queue # << >>
    /\ rpc # "runner"
    /\ Head(queue) # NoneItem
    /\ queue' = Tail(queue)
    /\ chunk_count' = IF IsChunk(Head(queue)) THEN chunk_count + 1 ELSE chunk_count
    /\ live' = Append(live, Head(queue))
    /\ UNCHANGED << tasks, runs, redis, provider, runner_ops, input, post, get, cpc, rpc, pend, nops, emitted, log,
                    failures, aborted >>
    /\ UNCHANGED resumeVars

\* one turn of the "while True" loop of start_stream followed by the facade's
\* "async for" body: queue.get(), break on None, count a chunk, yield; the
\* facade yields aborted and breaks when the abort signal is set
DrainItem ==
    /\ cpc = "drain"
    /\ queue # << >>
    /\ rpc # "runner"
    /\ Head(queue) # NoneItem
    /\ queue' = Tail(queue)
    /\ chunk_count' = IF IsChunk(Head(queue)) THEN chunk_count + 1 ELSE chunk_count
    /\ live' = Append(live, Head(queue))
    /\ cpc' = IF aborted THEN "aborted" ELSE "drain"
    /\ UNCHANGED << tasks, runs, redis, provider, runner_ops, input, post, get, rpc, pend, nops, emitted, log, failures, aborted >>
    /\ UNCHANGED resumeVars

\* RedisRiverProvider.start_stream reads None: break, the generator ends;
\* the run_stream task is left alone
Redis_drain_none ==
    /\ provider = "redis"
    /\ cpc = "drain"
    /\ queue # << >>
    /\ rpc # "runner"
    /\ Head(queue) = NoneItem
    /\ queue' = Tail(queue)
    /\ cpc' = "done"
    /\ UNCHANGED << tasks, runs, redis, provider, runner_ops, input, post, get, live, chunk_count, rpc, pend, nops, emitted, log,
                    failures, aborted >>
    /\ UNCHANGED resumeVars

\* DefaultRiverProvider.start_stream reads None: break, and the finally
\* clause cancels a run_stream task that is not done and awaits it; the
\* cancelled task runs its own finally, queue.put(None)
Default_drain_none ==
    /\ provider = "default"
    /\ cpc = "drain"
    /\ queue # << >>
    /\ rpc # "runner"
    /\ Head(queue) = NoneItem
    /\ cpc' = "done"
    /\ IF rpc = "done"
       THEN /\ queue' = Tail(queue)
            /\ rpc' = rpc
       ELSE /\ queue' = Append(Tail(queue), NoneItem)
            /\ rpc' = "cancelled"
    /\ UNCHANGED << tasks, runs, redis, provider, runner_ops, input, post, get, live, chunk_count, pend, nops, emitted, log,
                    failures, aborted >>
    /\ UNCHANGED resumeVars

\* the facade has left its loop on abort, or the response that iterates it
\* was cancelled, and the provider's generator is dropped; closing it runs
\* the finally clause of DefaultRiverProvider.start_stream, which cancels
\* the run_stream task
Default_generator_close ==
    /\ provider = "default"
    /\ cpc \in {"aborted", "dropped"}
    /\ rpc \notin {"none", "runner", "done", "cancelled"}
    /\ rpc' = "cancelled"
    /\ queue' = Append(queue, NoneItem)
    /\ cpc' = "closed"
    /\ UNCHANGED << tasks, runs, redis, provider, runner_ops, input, post, get, live, chunk_count, pend, nops, emitted, log,
                    failures, aborted >>
    /\ UNCHANGED resumeVars

\* AbortSignal.abort(): the signal lives in the context handed to the
\* runner, so it can be set once the runner has been invoked.  Only the
\* facade's loop reads it: setting it after the loop has ended changes
\* nothing and is left out.
Abort ==
    /\ rpc \notin {"none", "new"}
    /\ cpc = "drain"
    /\ ~aborted
    /\ aborted' = TRUE
    /\ UNCHANGED << tasks, runs, redis, provider, runner_ops, input, post, get, cpc, live, queue, chunk_count, rpc, pend, nops,
                    emitted, log, failures >>
    /\ UNCHANGED resumeVars

\* the client of POST goes away: the response task that iterates
\* _sse_generator is cancelled and the generators under it are dropped.
\* Nothing in the adapter holds the AbortSignal that StreamCaller.start
\* created, so the signal is left as it is.
sse_generator_cancelled ==
    /\ post.status = 200
    /\ cpc \in {"started", "drain"}
    /\ rpc # "runner"
    /\ cpc' = "dropped"
    /\ UNCHANGED << tasks, runs, redis, provider, runner_ops, input, post, get, live, queue, chunk_count, rpc, pend, nops,
                    emitted, log, failures, aborted >>
    /\ UNCHANGED resumeVars

(* ----------------------- the run_stream task --------------------------- *)
\* the event loop starts the task: run_stream enters the try and calls
\* runner(context)
RunnerBegin ==
    /\ rpc = "new"
    /\ rpc' = "runner"
    /\ UNCHANGED << tasks, runs, redis, provider, runner_ops, input, post, get, cpc, live, queue, chunk_count, pend, nops,
                    emitted, log, failures, aborted >>
    /\ UNCHANGED resumeVars

\* the runner awaits something of its own (asyncio.sleep in the tests)
RunnerSleep ==
    /\ rpc = "runner"
    /\ nops < runner_ops
    /\ nops' = nops + 1
    /\ rpc' = "sleep"
    /\ UNCHANGED << tasks, runs, redis, provider, runner_ops, input, post, get, cpc, live, queue, chunk_count, pend, emitted,
                    log, failures, aborted >>
    /\ UNCHANGED resumeVars

RunnerWake ==
    /\ rpc = "sleep"
    /\ rpc' = "runner"
    /\ UNCHANGED << tasks, runs, redis, provider, runner_ops, input, post, get, cpc, live, queue, chunk_count, pend, nops,
                    emitted, log, failures, aborted >>
    /\ UNCHANGED resumeVars

\* StreamHelper.close() of both helpers: pass
close ==
    /\ rpc = "runner"
    /\ nops < runner_ops
    /\ nops' = nops + 1
    /\ UNCHANGED << tasks, runs, redis, provider, runner_ops, input, post, get, cpc, live, queue, chunk_count, rpc, pend,
                    emitted, log, failures, aborted >>
    /\ UNCHANGED resumeVars

(* DefaultStreamHelper and DefaultRiverProvider.run_stream: no await of    *)
(* theirs suspends                                                         *)
Default_put(items) ==
    /\ provider = "default"
    /\ rpc = "runner"
    /\ queue' = queue \o items
    /\ emitted' = Append(emitted, items[1])
    /\ UNCHANGED << tasks, runs, redis, provider, runner_ops, input, post, get, cpc, live, chunk_count, pend, log, failures, aborted >>
    /\ UNCHANGED resumeVars

Default_append_chunk(p) ==
    /\ nops < runner_ops
    /\ Default_put(<< ChunkItem(p) >>)
    /\ nops' = nops + 1
    /\ rpc' = rpc

Default_append_error(e) ==
    /\ nops < runner_ops
    /\ Default_put(<< StreamErrorItem(e) >>)
    /\ nops' = nops + 1
    /\ rpc' = rpc

Default_send_fatal_error_and_close(e) ==
    /\ nops < runner_ops
    /\ Default_put(<< StreamFatalErrorItem(e), NoneItem >>)
    /\ nops' = nops + 1
    /\ rpc' = rpc

\* the runner returns: stream_end with the chunk_count of this moment, then
\* the finally clause
Default_run_stream_return ==
    /\ Default_put(<< StreamEndItem(chunk_count), NoneItem >>)
    /\ rpc' = "done"
    /\ nops' = nops

\* the runner raises an Exception: stream_fatal_error(RUNNER_ERROR), finally
Default_run_stream_except ==
    /\ Default_put(<< StreamFatalErrorItem("RUNNER_ERROR"), NoneItem >>)
    /\ rpc' = "done"
    /\ nops' = nops

(* RedisStreamHelper and RedisRiverProvider.run_stream: every await on the *)
(* Redis client suspends the task; the write takes effect, or fails, by    *)
(* the time the await returns                                              *)

\* write_to_redis with the new entry put in front of the stream's entries
write_to_redis_front(it) ==
    \/ /\ log' = << DataEntry(it) >> \o log
       /\ failures' = failures
    \/ /\ failures < MaxFailures
       /\ failures' = failures + 1
       /\ log' = log

\* _write_to_redis(item): json.dumps and xadd of a data entry; an exception
\* of either is caught and printed
write_to_redis(it) ==
    \/ /\ log' = Append(log, DataEntry(it))
       /\ failures' = failures
    \/ /\ failures < MaxFailures
       /\ failures' = failures + 1
       /\ log' = log

\* the runner calls a helper operation, which awaits _write_to_redis(item)
Redis_call(it, pos) ==
    /\ provider = "redis"
    /\ rpc = "runner"
    /\ pend' = it
    /\ rpc' = pos
    /\ emitted' = Append(emitted, it)
    /\ UNCHANGED << tasks, runs, redis, provider, runner_ops, input, post, get, cpc, live, queue, chunk_count, log, failures, aborted >>
    /\ UNCHANGED resumeVars

Redis_append_chunk(p) ==
    /\ nops < runner_ops
    /\ nops' = nops + 1
    /\ Redis_call(ChunkItem(p), "w_item")

\* Redis_append_error that closes the stream as send_fatal_error_and_close
\* does: end marker and None after the item
Redis_append_error_closes(e) ==
    /\ nops < runner_ops
    /\ nops' = nops + 1
    /\ Redis_call(StreamErrorItem(e), "w_fatal")

Redis_append_error(e) ==
    /\ nops < runner_ops
    /\ nops' = nops + 1
    /\ Redis_call(StreamErrorItem(e), "w_item")

\* append_body with the item published before it is written
append_body_put_first ==
    << "put", "write" >>

\* the statements of append_chunk / append_error after the item is built:
\* await self._write_to_redis(item), then await self._queue.put(item)
append_body ==
    << "write", "put" >>

\* one statement of append_body
AppendStatement(st) ==
    IF st = "write"
    THEN /\ write_to_redis(pend)
         /\ queue' = queue
    ELSE /\ queue' = Append(queue, pend)
         /\ log' = log
         /\ failures' = failures

\* Redis_append_write without the write to Redis
Redis_append_write_skipped ==
    /\ rpc = "w_item"
    /\ rpc' = "p_item"
    /\ UNCHANGED << tasks, runs, redis, provider, runner_ops, input, post, get, cpc, live, queue, chunk_count, pend, nops,
                    emitted, log, failures, aborted >>
    /\ UNCHANGED resumeVars

\* append_chunk / append_error, first statement: the xadd takes effect in
\* Redis, or fails, while the task is still suspended in the await; other
\* tasks run before it is resumed
Redis_append_write ==
    /\ rpc = "w_item"
    /\ AppendStatement(append_body[1])
    /\ rpc' = "p_item"
    /\ UNCHANGED << tasks, runs, redis, provider, runner_ops, input, post, get, cpc, live, chunk_count, pend, nops, emitted, aborted >>
    /\ UNCHANGED resumeVars

\* Redis_append_put that publishes the item only when its write succeeded
Redis_append_put_if_written ==
    /\ rpc = "p_item"
    /\ queue' = IF log # << >> /\ log[Len(log)] = DataEntry(pend)
                THEN Append(queue, pend) ELSE queue
    /\ rpc' = "runner"
    /\ UNCHANGED << tasks, runs, redis, provider, runner_ops, input, post, get, cpc, live, chunk_count, pend, nops, emitted,
                    log, failures, aborted >>
    /\ UNCHANGED resumeVars

\* append_chunk / append_error, second statement: the task is resumed,
\* queue.put(item), and the runner goes on
Redis_append_put ==
    /\ rpc = "p_item"
    /\ AppendStatement(append_body[2])
    /\ rpc' = "runner"
    /\ UNCHANGED << tasks, runs, redis, provider, runner_ops, input, post, get, cpc, live, chunk_count, pend, nops, emitted, aborted >>
    /\ UNCHANGED resumeVars

Redis_send_fatal_error_and_close(e) ==
    /\ nops < runner_ops
    /\ nops' = nops + 1
    /\ Redis_call(StreamFatalErrorItem(e), "w_fatal")

\* send_fatal_error_and_close after _write_to_redis: queue.put(item), then
\* it awaits the xadd of the end marker
Redis_fatal_put ==
    /\ rpc = "w_fatal"
    /\ write_to_redis(pend)
    /\ queue' = Append(queue, pend)
    /\ rpc' = "x_fatal"
    /\ UNCHANGED << tasks, runs, redis, provider, runner_ops, input, post, get, cpc, live, chunk_count, pend, nops, emitted, aborted >>
    /\ UNCHANGED resumeVars

\* send_fatal_error_and_close after the xadd of the end marker, which is not
\* guarded: queue.put(None) and back to the runner, or the exception of the
\* xadd is raised into the runner
Redis_fatal_end ==
    /\ rpc = "x_fatal"
    /\ \/ /\ log' = Append(log, EndEntry)
          /\ failures' = failures
          /\ queue' = Append(queue, NoneItem)
       \/ /\ failures < MaxFailures
          /\ failures' = failures + 1
          /\ log' = log
          /\ queue' = queue
    /\ rpc' = "runner"
    /\ UNCHANGED << tasks, runs, redis, provider, runner_ops, input, post, get, cpc, live, chunk_count, pend, nops, emitted, aborted >>
    /\ UNCHANGED resumeVars

\* the runner returns: run_stream builds stream_end with the chunk_count of
\* this moment and awaits _write_to_redis(item)
Redis_run_stream_return ==
    /\ nops' = nops
    /\ Redis_call(StreamEndItem(chunk_count), "w_end")

\* run_stream after _write_to_redis(stream_end): queue.put(item), then it
\* awaits the xadd of the end marker
Redis_end_put ==
    /\ rpc = "w_end"
    /\ write_to_redis(pend)
    /\ queue' = Append(queue, pend)
    /\ rpc' = "x_end"
    /\ UNCHANGED << tasks, runs, redis, provider, runner_ops, input, post, get, cpc, live, chunk_count, pend, nops, emitted, aborted >>
    /\ UNCHANGED resumeVars

\* run_stream after the xadd of the end marker: finally queue.put(None); or
\* the xadd raised inside the try, and the except clause builds
\* stream_fatal_error(RUNNER_ERROR) and awaits _write_to_redis(item)
Redis_end_marker ==
    /\ rpc = "x_end"
    /\ \/ /\ log' = Append(log, EndEntry)
          /\ failures' = failures
          /\ queue' = Append(queue, NoneItem)
          /\ rpc' = "done"
          /\ pend' = pend
          /\ emitted' = emitted
       \/ /\ failures < MaxFailures
          /\ failures' = failures + 1
          /\ log' = log
          /\ queue' = queue
          /\ rpc' = "w_exc"
          /\ pend' = StreamFatalErrorItem("RUNNER_ERROR")
          /\ emitted' = Append(emitted, StreamFatalErrorItem("RUNNER_ERROR"))
    /\ UNCHANGED << tasks, runs, redis, provider, runner_ops, input, post, get, cpc, live, chunk_count, nops, aborted >>
    /\ UNCHANGED resumeVars

\* the runner raises an Exception: the except clause builds
\* stream_fatal_error(RUNNER_ERROR) and awaits _write_to_redis(item)
Redis_run_stream_except ==
    /\ nops' = nops
    /\ Redis_call(StreamFatalErrorItem("RUNNER_ERROR"), "w_exc")

\* Redis_except_put without the write to Redis: the item is only published
Redis_except_put_live_only ==
    /\ rpc = "w_exc"
    /\ queue' = Append(queue, pend)
    /\ rpc' = "x_exc"
    /\ UNCHANGED << tasks, runs, redis, provider, runner_ops, input, post, get, cpc, live, chunk_count, pend, nops,
                    emitted, log, failures, aborted >>
    /\ UNCHANGED resumeVars

\* the except clause after _write_to_redis: queue.put(item), then it awaits
\* the xadd of the end marker
Redis_except_put ==
    /\ rpc = "w_exc"
    /\ write_to_redis(pend)
    /\ queue' = Append(queue, pend)
    /\ rpc' = "x_exc"
    /\ UNCHANGED << tasks, runs, redis, provider, runner_ops, input, post, get, cpc, live, chunk_count, pend, nops, emitted, aborted >>
    /\ UNCHANGED resumeVars

\* the except clause after the xadd of the end marker, done or failed (the
\* exception then leaves the task): finally queue.put(None)
Redis_except_marker ==
    /\ rpc = "x_exc"
    /\ \/ /\ log' = Append(log, EndEntry)
          /\ failures' = failures
       \/ /\ failures < MaxFailures
          /\ failures' = failures + 1
          /\ log' = log
    /\ queue' = Append(queue, NoneItem)
    /\ rpc' = "done"
    /\ UNCHANGED << tasks, runs, redis, provider, runner_ops, input, post, get, cpc, live, chunk_count, pend, nops, emitted, aborted >>
    /\ UNCHANGED resumeVars

(* ------------------------- resume_stream ------------------------------- *)
Min(a, b) == IF a < b THEN a ELSE b

\* redis.xread({stream_key: last_id}, block=10, count=10): the entries after
\* last_id, at most count of them; empty when the block time passes without
\* a new entry
xread(l, last) == SubSeq(l, last + 1, Min(last + xread_count, Len(l)))

\* an entry at which the "for msg_id, fields in messages" loop returns: the
\* end marker, or a data entry holding stream_end or stream_fatal_error
StopsAt(e) == e.field = "end" \/ IsTerminal(JsonLoads(e.data))

\* Consumed with no return inside the loop: the whole batch is gone through
Consumed_whole_batch(batch) ==
    Len(batch)

\* number of entries of a batch the loop goes through: up to and including
\* the first one it returns at
Consumed(batch) ==
    IF \E k \in 1..Len(batch) : StopsAt(batch[k])
    THEN CHOOSE k \in 1..Len(batch) :
            StopsAt(batch[k]) /\ \A j \in 1..(k - 1) : ~StopsAt(batch[j])
    ELSE Len(batch)

\* resume_stream up to its first xread: the provider of the token's stream
\* is asked; Redis checks that the key exists.  The token is the one
\* stream_start carried, so the run has yielded stream_start.
ResumeStart(r) ==
    /\ rs[r] = "idle"
    /\ r # 1 => rs[1] # "idle" /\ rpc \in {"done", "cancelled"}
    /\ live # << >>
    /\ rpc # "runner"
    /\ rs' = [rs EXCEPT ![r] =
                IF provider = "default" THEN "unsupported"
                ELSE IF log = << >> THEN "not_found" ELSE "reading"]
    /\ rlate' = [rlate EXCEPT ![r] = (rpc \in {"done", "cancelled"})]
    /\ UNCHANGED << tasks, runs, redis, provider, runner_ops, input, post, get, cpc, live, queue, chunk_count, rpc, pend, nops,
                    emitted, log, failures, aborted, last_id, attempts, rout >>

\* the entries Redis holds under the stream key made of a storage id and a
\* run id: this run's log, the other stream's log, or nothing
RedisStream(sid, rid) ==
    IF sid = stream_storage_id /\ rid = stream_run_id THEN log
    ELSE IF sid = other_storage_id /\ rid = other_run_id THEN other_log
    ELSE << >>

\* the stream a reader's xread names: resume_stream builds the key from the
\* token it was handed; reader 1 may have come in through get_handler with a
\* key of the client's, the other readers hold this run's token
ReaderStream(r) ==
    IF r = 1 /\ get.status = 200 /\ decode_resumption_token(get.resumeKey).ok
    THEN LET d == decode_resumption_token(get.resumeKey).val.obj
         IN  RedisStream(d["stream_storage_id"], d["stream_run_id"])
    ELSE log

\* ResumeRead with one read position kept by the provider for all readers
\* in place of the local last_id
ResumeRead_shared_cursor(r) ==
    /\ rs[r] = "reading"
    /\ rpc # "runner"
    /\ LET batch == xread(ReaderStream(r), last_id[1])
           n == Consumed(batch)
           stop == n > 0 /\ StopsAt(batch[n])
       IN  /\ attempts' = [attempts EXCEPT ![r] = @ + 1]
           /\ last_id' = [last_id EXCEPT ![1] = @ + n]
           /\ rout' = [rout EXCEPT ![r] = @ \o LogItems(SubSeq(batch, 1, n))]
           /\ rs' = [rs EXCEPT ![r] =
                        IF stop THEN "done"
                        ELSE IF attempts[r] + 1 >= max_attempts THEN "limit"
                        ELSE "reading"]
    /\ UNCHANGED << tasks, runs, redis, provider, runner_ops, input, post, get, cpc, live, queue, chunk_count, rpc, pend, nops,
                    emitted, log, failures, aborted, rlate >>

\* ResumeRead that takes its items from the run's live queue when there are
\* any, as a second consumer of it
ResumeRead_from_queue(r) ==
    /\ rs[r] = "reading"
    /\ rpc # "runner"
    /\ LET batch == xread(ReaderStream(r), last_id[r])
           n == Consumed(batch)
           stop == n > 0 /\ StopsAt(batch[n])
           taken == IF queue # << >> /\ Head(queue) # NoneItem
                    THEN << Head(queue) >> ELSE << >>
       IN  /\ attempts' = [attempts EXCEPT ![r] = @ + 1]
           /\ last_id' = [last_id EXCEPT ![r] = @ + n]
           /\ rout' = [rout EXCEPT ![r] = @ \o taken]
           /\ queue' = IF taken # << >> THEN Tail(queue) ELSE queue
           /\ rs' = [rs EXCEPT ![r] =
                        IF stop THEN "done"
                        ELSE IF attempts[r] + 1 >= max_attempts THEN "limit"
                        ELSE "reading"]
    /\ UNCHANGED << tasks, runs, redis, provider, runner_ops, input, post, get, cpc, live, chunk_count, rpc, pend, nops,
                    emitted, log, failures, aborted, rlate >>

\* ResumeRead with "while True" in place of "while attempts < max_attempts"
ResumeRead_uncapped(r) ==
    /\ rs[r] = "reading"
    /\ rpc # "runner"
    /\ LET batch == xread(ReaderStream(r), last_id[r])
           n == Consumed(batch)
           stop == n > 0 /\ StopsAt(batch[n])
       IN  /\ attempts' = [attempts EXCEPT ![r] = @ + 1]
           /\ last_id' = [last_id EXCEPT ![r] = @ + n]
           /\ rout' = [rout EXCEPT ![r] = @ \o LogItems(SubSeq(batch, 1, n))]
           /\ rs' = [rs EXCEPT ![r] = IF stop THEN "done" ELSE "reading"]
    /\ UNCHANGED << tasks, runs, redis, provider, runner_ops, input, post, get, cpc, live, queue, chunk_count, rpc, pend, nops,
                    emitted, log, failures, aborted, rlate >>

\* one turn of "while attempts < max_attempts": xread, and the loop over the
\* messages read, which yields the item of every data entry, returns at the
\* end marker and returns after yielding stream_end or stream_fatal_error;
\* when the turns are used up, the PROVIDER error is raised
ResumeRead(r) ==
    /\ rs[r] = "reading"
    /\ rpc # "runner"
    /\ LET batch == xread(ReaderStream(r), last_id[r])
           n == Consumed(batch)
           stop == n > 0 /\ StopsAt(batch[n])
       IN  /\ attempts' = [attempts EXCEPT ![r] = @ + 1]
           /\ last_id' = [last_id EXCEPT ![r] = @ + n]
           /\ rout' = [rout EXCEPT ![r] = @ \o LogItems(SubSeq(batch, 1, n))]
           /\ rs' = [rs EXCEPT ![r] =
                        IF stop THEN "done"
                        ELSE IF attempts[r] + 1 >= max_attempts THEN "limit"
                        ELSE "reading"]
    /\ UNCHANGED << tasks, runs, redis, provider, runner_ops, input, post, get, cpc, live, queue, chunk_count, rpc, pend, nops,
                    emitted, log, failures, aborted, rlate >>

(* ------------------- runs started side by side ------------------------ *)
\* The runs of test_redis_provider_concurrent_streams: start_stream is called
\* once per run with the same stream definition and provider and an input of
\* its own; the runner appends f"{message}-{k}" for the k it counts, then
\* returns.  Every action is one task running from one await to the next,
\* with the Redis writes of the step applied; no write fails here.
oneRunVars ==
    << tasks, provider, runner_ops, input, post, get, cpc, live, queue, chunk_count, rpc,
       pend, nops, emitted, log, failures, aborted, rs, last_id, attempts, rout, rlate >>

\* the k-th payload of the runner whose input carries message m
RunPayload(m, k) == << m, k >>

\* the stream_start of a run, with the token on the Redis provider
RunStartItem(rid) ==
    IF provider = "redis"
    THEN Item("special", "stream_start", 0, "", rid,
              << "redis", "", stream_storage_id, rid >>)
    ELSE Item("special", "stream_start", 0, "", rid, NoToken)

\* redis.xadd(stream_key, fields) of run i, on the Redis provider
xadd(i, entries) ==
    IF provider = "redis"
    THEN [redis EXCEPT
            ![make_stream_key(stream_storage_id, runs[i].stream_run_id)] = @ \o entries]
    ELSE redis

\* start_stream of run i up to its first yield: queue, uuid4, helper,
\* stream_start
Runs_start_stream(i, rid) ==
    /\ runs[i].cpc = "init"
    /\ \A j \in RunIx : runs[j].stream_run_id # rid
    /\ runs' = [runs EXCEPT ![i].cpc = "started",
                            ![i].stream_run_id = rid,
                            ![i].live = << RunStartItem(rid) >>]
    /\ UNCHANGED redis
    /\ UNCHANGED oneRunVars

\* asyncio.create_task(run_stream()) of run i
Runs_create_task(i) ==
    /\ runs[i].cpc = "started"
    /\ runs' = [runs EXCEPT ![i].cpc = "drain", ![i].rpc = "runner"]
    /\ UNCHANGED redis
    /\ UNCHANGED oneRunVars

\* the runner of run i calls context.stream.append_chunk
Runs_append_chunk(i) ==
    /\ runs[i].rpc = "runner"
    /\ runs[i].nops < runner_ops
    /\ LET item == ChunkItem(RunPayload(i, runs[i].nops + 1))
       IN  /\ redis' = xadd(i, << DataEntry(item) >>)
           /\ runs' = [runs EXCEPT ![i].nops = @ + 1,
                                   ![i].queue = Append(@, item)]
    /\ UNCHANGED oneRunVars

\* the runner of run i returns: stream_end, the end marker, None
Runs_run_stream_return(i) ==
    /\ runs[i].rpc = "runner"
    /\ LET item == StreamEndItem(runs[i].chunk_count)
       IN  /\ redis' = xadd(i, << DataEntry(item), EndEntry >>)
           /\ runs' = [runs EXCEPT ![i].rpc = "done",
                                   ![i].queue = @ \o << item, NoneItem >>]
    /\ UNCHANGED oneRunVars

\* one turn of the "while True" loop of run i's start_stream
Runs_drain(i) ==
    /\ runs[i].cpc = "drain"
    /\ runs[i].queue # << >>
    /\ LET item == Head(runs[i].queue)
       IN  runs' = [runs EXCEPT
                      ![i].queue = Tail(@),
                      ![i].cpc = IF item.type = "None" THEN "done" ELSE @,
                      ![i].live = IF item.type = "None" THEN @ ELSE Append(@, item),
                      ![i].chunk_count = IF item.type = "chunk" THEN @ + 1 ELSE @]
    /\ UNCHANGED redis
    /\ UNCHANGED oneRunVars

(* ------------- helper calls from concurrent tasks ---------------------- *)
\* The runner starts MaxTasks tasks (asyncio.gather) and each calls
\* context.stream.append_chunk once.  A call suspends at the await of xadd:
\* the command is on its way, the server applies it at some time, the reply
\* resumes the task at some later time.  The Redis client takes a
\* connection from its pool for every command, so commands of different
\* tasks travel and are answered independently of one another.

\* the state after stream_start was yielded, the run_stream task was
\* created and the runner has started its tasks
InitTasks ==
    /\ tasks = [t \in TaskIx |-> "new"]
    /\ runs = [i \in RunIx |-> NoRun]
    /\ redis = [key \in StreamKeys |-> << >>]
    /\ provider = "redis"
    /\ runner_ops = MaxTasks
    /\ input = {"prompt"}
    /\ post = NoPost
    /\ get = NoGet
    /\ cpc = "drain"
    /\ live = << StreamStartItem >>
    /\ queue = << >>
    /\ chunk_count = 0
    /\ rpc = "runner"
    /\ pend = NoneItem
    /\ nops = 0
    /\ emitted = << >>
    /\ log = << >>
    /\ failures = 0
    /\ aborted = FALSE
    /\ rs = [r \in Resumers |-> "idle"]
    /\ last_id = [r \in Resumers |-> 0]
    /\ attempts = [r \in Resumers |-> 0]
    /\ rout = [r \in Resumers |-> << >>]
    /\ rlate = [r \in Resumers |-> FALSE]

taskRunVars ==
    << runs, redis, provider, runner_ops, input, post, get, cpc, chunk_count, rpc,
       pend, aborted, rs, last_id, attempts, rout, rlate >>

\* the chunk task t appends
TaskItem(t) == ChunkItem(t)

\* task t calls append_chunk: the item is built, _write_to_redis sends the
\* xadd command and the task is suspended
Tasks_append_chunk(t) ==
    /\ tasks[t] = "new"
    /\ tasks' = [tasks EXCEPT ![t] = "xadd"]
    /\ nops' = nops + 1
    /\ emitted' = Append(emitted, TaskItem(t))
    /\ UNCHANGED << live, queue, log, failures >>
    /\ UNCHANGED taskRunVars

\* the server applies the xadd of task t
Tasks_xadd_applied(t) ==
    /\ tasks[t] = "xadd"
    /\ tasks' = [tasks EXCEPT ![t] = "replied"]
    /\ log' = Append(log, DataEntry(TaskItem(t)))
    /\ UNCHANGED << live, queue, nops, emitted, failures >>
    /\ UNCHANGED taskRunVars

\* the xadd of task t fails; _write_to_redis will print the warning
Tasks_xadd_failed(t) ==
    /\ tasks[t] = "xadd"
    /\ failures < MaxFailures
    /\ tasks' = [tasks EXCEPT ![t] = "replied"]
    /\ failures' = failures + 1
    /\ UNCHANGED << live, queue, nops, emitted, log >>
    /\ UNCHANGED taskRunVars

\* task t is resumed: _write_to_redis returns and append_chunk puts the
\* item on the queue
Tasks_put(t) ==
    /\ tasks[t] = "replied"
    /\ tasks' = [tasks EXCEPT ![t] = "done"]
    /\ queue' = Append(queue, TaskItem(t))
    /\ UNCHANGED << live, nops, emitted, log, failures >>
    /\ UNCHANGED taskRunVars

\* one turn of the "while True" loop of start_stream on a chunk
Tasks_drain ==
    /\ cpc = "drain"
    /\ queue # << >>
    /\ live' = Append(live, Head(queue))
    /\ queue' = Tail(queue)
    /\ chunk_count' = chunk_count + 1
    /\ UNCHANGED << tasks, runs, redis, provider, runner_ops, input, post, get, cpc, rpc,
                    pend, nops, emitted, log, failures, aborted >>
    /\ UNCHANGED resumeVars

NextTasks ==
    \/ \E t \in TaskIx : Tasks_append_chunk(t)
    \/ \E t \in TaskIx : Tasks_xadd_applied(t)
    \/ \E t \in TaskIx : Tasks_xadd_failed(t)
    \/ \E t \in TaskIx : Tasks_put(t)
    \/ Tasks_drain

SpecTasks == InitTasks /\ [][NextTasks]_vars

(* --------------------- the FastAPI adapter ----------------------------- *)
\* exceptions as the handlers' except clauses tell them apart
HTTPException(code) == [class |-> "HTTPException", status_code |-> code]
Exc(c) == [class |-> c, status_code |-> 0]
NoExc == Exc("")

\* the except clauses of post_handler: ValidationError, RiverError, Exception
post_except(exc) ==
    CASE exc.class = "ValidationError" -> 400
      [] exc.class = "RiverError" -> 400
      [] OTHER -> 500

\* the except clauses of get_handler: HTTPException is re-raised, RiverError,
\* Exception
get_except(exc) ==
    CASE exc.class = "HTTPException" -> exc.status_code
      [] exc.class = "RiverError" -> 400
      [] OTHER -> 500

\* the JSON bodies of a POST: router_stream_key and input, either may be
\* absent
Bodies ==
    {b \in [router_stream_key : {"chat", "nonexistent", Missing},
            has_input : BOOLEAN, input : Inputs] :
        ~b.has_input => b.input = {}}

\* what the try block of post_handler raises: StartStreamRequest(**body)
\* raises pydantic's ValidationError; caller.get_stream raises RiverError,
\* which the inner except turns into HTTPException(404), raised inside the
\* outer try; stream_caller.start(...) only creates the generator
post_raises(body) ==
    IF body.router_stream_key = Missing \/ ~body.has_input
    THEN Exc("ValidationError")
    ELSE IF body.router_stream_key \notin RouterKeys
    THEN HTTPException(404)
    ELSE NoExc

post_status(body) ==
    IF post_raises(body) = NoExc THEN 200 ELSE post_except(post_raises(body))

\* post_handler: the request is answered; with 200 the event stream is
\* open and _sse_generator will iterate StreamCaller.start(input)
post_handler(body) ==
    /\ post = NoPost
    /\ cpc = "init"
    /\ post' = [router_stream_key |-> body.router_stream_key,
                has_input |-> body.has_input,
                status |-> post_status(body)]
    /\ input' = IF post_status(body) = 200 THEN body.input ELSE input
    /\ UNCHANGED << tasks, runs, redis, provider, runner_ops, get, cpc, live, queue, chunk_count,
                    rpc, pend, nops, emitted, log, failures, aborted >>
    /\ UNCHANGED resumeVars

\* _sse_generator asks StreamCaller.start for its first item
sse_generator_start ==
    /\ post.status = 200
    /\ StartStream

sse_generator_rejected ==
    /\ post.status = 200
    /\ StartStream_rejected

\* what the try block of get_handler raises
get_raises(present, resume_key) ==
    IF ~present THEN HTTPException(400)
    ELSE LET token == decode_resumption_token(resume_key)
         IN  IF ~token.ok THEN HTTPException(400)
             ELSE IF token.val.obj["router_stream_key"] = Missing
             THEN Exc("KeyError")
             ELSE IF token.val.obj["router_stream_key"] \notin RouterKeys
             THEN HTTPException(404)
             ELSE NoExc

get_status(present, resume_key) ==
    IF get_raises(present, resume_key) = NoExc THEN 200
    ELSE get_except(get_raises(present, resume_key))

\* get_handler: the request is answered; with 200 the event stream is open
\* and _sse_generator will iterate StreamCaller.resume(resume_key)
get_handler(present, resume_key) ==
    /\ get = NoGet
    /\ rpc # "runner"
    /\ get' = [resumeKey |-> resume_key, present |-> present,
               status |-> get_status(present, resume_key), error |-> ""]
    /\ UNCHANGED << tasks, runs, redis, provider, runner_ops, input, post, cpc, live, queue,
                    chunk_count, rpc, pend, nops, emitted, log, failures, aborted >>
    /\ UNCHANGED resumeVars

\* exists with a stream key that leaves the run id out
exists_any_run(sid, rid) ==
    \E any \in {stream_run_id, other_run_id} : RedisStream(sid, any) # << >>

\* redis.exists(stream_key): the key is made of the token's storage id and
\* run id; a stream without entries does not exist
exists(sid, rid) ==
    RedisStream(sid, rid) # << >>

\* how StreamCaller.resume(resume_key) begins: the key is decoded (every
\* exception becomes INVALID_RESUMPTION_TOKEN), then resume_stream of the
\* stream's provider runs up to its first xread
resume_begin(resume_key) ==
    LET token == decode_resumption_token(resume_key)
        d == token.val.obj
    IN  IF ~token.ok THEN "INVALID_RESUMPTION_TOKEN"
        ELSE IF provider = "default" THEN "PROVIDER"
        ELSE IF d["stream_storage_id"] = Missing \/ d["stream_run_id"] = Missing
        THEN "KeyError"
        ELSE IF ~exists(d["stream_storage_id"], d["stream_run_id"])
        THEN "STREAM_NOT_FOUND"
        ELSE ""

\* _sse_generator asks StreamCaller.resume for its first item (reader 1)
sse_generator_resume ==
    /\ get.status = 200
    /\ get.error = ""
    /\ rs[1] = "idle"
    /\ rpc # "runner"
    /\ LET err == resume_begin(get.resumeKey)
       IN  /\ get' = [get EXCEPT !.error = err]
           /\ rs' = [rs EXCEPT ![1] =
                        CASE err = "" -> "reading"
                          [] err = "STREAM_NOT_FOUND" -> "not_found"
                          [] err = "PROVIDER" -> "unsupported"
                          [] OTHER -> "raised"]
    /\ rlate' = [rlate EXCEPT ![1] = (rpc \in {"done", "cancelled"})]
    /\ UNCHANGED << tasks, runs, redis, provider, runner_ops, input, post, cpc, live, queue,
                    chunk_count, rpc, pend, nops, emitted, log, failures,
                    aborted, last_id, attempts, rout >>

(* ------------------------- specification ------------------------------- *)
Next ==
    \/ StartStream
    \/ CreateTask
    \/ DrainItem
    \/ Redis_drain_none
    \/ Default_drain_none
    \/ Default_generator_close
    \/ Abort
    \/ RunnerBegin
    \/ RunnerSleep
    \/ RunnerWake
    \/ close
    \/ \E p \in Payloads : Default_append_chunk(p)
    \/ \E e \in UserErrors : Default_append_error(e)
    \/ \E e \in UserErrors : Default_send_fatal_error_and_close(e)
    \/ Default_run_stream_return
    \/ Default_run_stream_except
    \/ \E p \in Payloads : Redis_append_chunk(p)
    \/ \E e \in UserErrors : Redis_append_error(e)
    \/ Redis_append_write
    \/ Redis_append_put
    \/ \E e \in UserErrors : Redis_send_fatal_error_and_close(e)
    \/ Redis_fatal_put
    \/ Redis_fatal_end
    \/ Redis_run_stream_return
    \/ Redis_end_put
    \/ Redis_end_marker
    \/ Redis_run_stream_except
    \/ Redis_except_put
    \/ Redis_except_marker
    \/ \E r \in Resumers : ResumeStart(r)
    \/ \E r \in Resumers : ResumeRead(r)

Spec == Init /\ [][Next]_vars

\* the start path alone: facade, provider, run_stream task and helper, with
\* no resume reader
\* the steps of a run after stream_start, the abort signal left alone
RunSteps ==
    \/ CreateTask
    \/ DrainItem
    \/ Redis_drain_none
    \/ Default_drain_none
    \/ RunnerBegin
    \/ RunnerSleep
    \/ RunnerWake
    \/ close
    \/ \E p \in Payloads : Default_append_chunk(p)
    \/ \E e \in UserErrors : Default_append_error(e)
    \/ \E e \in UserErrors : Default_send_fatal_error_and_close(e)
    \/ Default_run_stream_return
    \/ Default_run_stream_except
    \/ \E p \in Payloads : Redis_append_chunk(p)
    \/ \E e \in UserErrors : Redis_append_error(e)
    \/ Redis_append_write
    \/ Redis_append_put
    \/ \E e \in UserErrors : Redis_send_fatal_error_and_close(e)
    \/ Redis_fatal_put
    \/ Redis_fatal_end
    \/ Redis_run_stream_return
    \/ Redis_end_put
    \/ Redis_end_marker
    \/ Redis_run_stream_except
    \/ Redis_except_put
    \/ Redis_except_marker

NextLive ==
    \/ StartStream
    \/ RunSteps
    \/ Abort
    \/ Default_generator_close

SpecLive == InitLive /\ [][NextLive]_vars

\* the steps of the run_stream task, runner and helper included
RunStreamTask ==
    \/ RunnerBegin
    \/ RunnerSleep
    \/ RunnerWake
    \/ close
    \/ \E p \in Payloads : Default_append_chunk(p)
    \/ \E e \in UserErrors : Default_append_error(e)
    \/ \E e \in UserErrors : Default_send_fatal_error_and_close(e)
    \/ Default_run_stream_return
    \/ Default_run_stream_except
    \/ \E p \in Payloads : Redis_append_chunk(p)
    \/ \E e \in UserErrors : Redis_append_error(e)
    \/ Redis_append_write
    \/ Redis_append_put
    \/ \E e \in UserErrors : Redis_send_fatal_error_and_close(e)
    \/ Redis_fatal_put
    \/ Redis_fatal_end
    \/ Redis_run_stream_return
    \/ Redis_end_put
    \/ Redis_end_marker
    \/ Redis_run_stream_except
    \/ Redis_except_put
    \/ Redis_except_marker

\* a run on the Redis provider whose runner appends up to as many chunks as
\* max_attempts reads of xread_count entries can hold, the k-th chunk
\* carrying k, and one resume reader
MaxLongOps == max_attempts * xread_count
InitLong == InitRun(MaxLongOps) /\ provider = "redis"

NextLong ==
    \/ StartStream
    \/ CreateTask
    \/ DrainItem
    \/ Redis_drain_none
    \/ RunnerBegin
    \/ Redis_append_chunk(nops + 1)
    \/ Redis_append_write
    \/ Redis_append_put
    \/ Redis_run_stream_return
    \/ Redis_end_put
    \/ Redis_end_marker
    \/ Redis_except_put
    \/ Redis_except_marker
    \/ ResumeStart(1)
    \/ ResumeRead(1)

SpecLong == InitLong /\ [][NextLong]_vars

\* the event loop runs a task that is ready, Redis answers, and the runner
\* is one that terminates; the live subscriber is under no obligation to go
\* on reading
SpecLiveFair == SpecLive /\ WF_vars(RunStreamTask)

\* the adapter in front of the router: one POST and one GET, the run the
\* POST starts and the resume the GET starts.  Nothing in the adapter calls
\* abort() on the signal StreamCaller.start creates.
InitHttp == InitRun(MaxHttpOps)

NextHttp ==
    \/ \E body \in Bodies : post_handler(body)
    \/ sse_generator_start
    \/ sse_generator_rejected
    \/ sse_generator_cancelled
    \/ Default_generator_close
    \/ \E k \in ResumeKeys : get_handler(TRUE, k)
    \/ get_handler(FALSE, NoResumeKey)
    \/ sse_generator_resume
    \/ ResumeRead(1)
    \/ RunSteps

SpecHttp == InitHttp /\ [][NextHttp]_vars

\* MaxRuns runs of one stream definition on one provider
InitRuns == InitRun(MaxRunChunks)

NextRuns ==
    \/ \E i \in RunIx, rid \in RunIds : Runs_start_stream(i, rid)
    \/ \E i \in RunIx : Runs_create_task(i)
    \/ \E i \in RunIx : Runs_append_chunk(i)
    \/ \E i \in RunIx : Runs_run_stream_return(i)
    \/ \E i \in RunIx : Runs_drain(i)

SpecRuns == InitRuns /\ [][NextRuns]_vars

TypeOK ==
    /\ tasks \in [TaskIx -> {"none", "new", "xadd", "replied", "done"}]
    /\ provider \in Providers
    /\ input \in Inputs
    /\ cpc \in {"init", "rejected", "started", "drain", "done", "aborted", "closed",
               "dropped"}
    /\ rpc \in {"none", "new", "runner", "sleep", "w_item", "p_item", "w_fatal", "x_fatal",
                "w_end", "x_end", "w_exc", "x_exc", "done", "cancelled"}
    /\ runner_ops \in {MaxOps, MaxLiveOps, MaxHttpOps, MaxRunChunks}
    /\ chunk_count \in 0..runner_ops
    /\ nops \in 0..runner_ops
    /\ failures \in 0..MaxFailures
    /\ aborted \in BOOLEAN
    /\ post.status \in {0, 200, 400, 404, 500}
    /\ get.status \in {0, 200, 400, 404, 500}
    /\ \A r \in Resumers : attempts[r] \in 0..max_attempts /\ last_id[r] \in 0..Len(ReaderStream(r))

(* --------------------------- properties -------------------------------- *)
IsPrefix(a, b) == Len(a) <= Len(b) /\ SubSeq(b, 1, Len(a)) = a

\* a is b with some elements left out
RECURSIVE IsSubseq(_, _)
IsSubseq(a, b) ==
    IF a = << >> THEN TRUE
    ELSE IF b = << >> THEN FALSE
    ELSE IF Head(a) = Head(b) THEN IsSubseq(Tail(a), Tail(b))
    ELSE IsSubseq(a, Tail(b))

\* the chunk payloads of a sequence of items, in order
ChunkPayloads(s) ==
    LET c == SelectSeq(s, IsChunk) IN [i \in 1..Len(c) |-> c[i].val]

NumChunks(s) == Len(SelectSeq(s, IsChunk))

IsStreamStart(it) ==
    it.type = "special" /\ it.special = "stream_start"
IsStreamEnd(it) ==
    it.type = "special" /\ it.special = "stream_end"

\* the items put on the queue so far that are not the None sentinel
NotNone(it) == it # NoneItem
QueueItems == SelectSeq(queue, NotNone)

Finished(r) == rs[r] \in {"done", "limit", "not_found", "unsupported"}
RunOver == rpc \in {"done", "cancelled"}

\* C1: on either provider the first item the live subscriber receives is
\* stream_start with the run's run_id, and it has been delivered before the
\* run_stream task exists, the runner runs or anything is emitted.
C1_StreamStartFirst ==
    /\ Out # << >> =>
          IsStreamStart(Out[1]) /\ Out[1].run_id = stream_run_id
    /\ (rpc # "none" \/ nops > 0 \/ emitted # << >> \/ queue # << >> \/ log # << >>)
          => Out # << >> /\ IsStreamStart(Out[1])

C1_Witness ==
    /\ rpc = "runner"
    /\ emitted # << >>
    /\ Len(Out) > 1
    /\ IsStreamStart(Out[1])

\* C2 (as stated): on the live path of a run that is not aborted a terminal
\* item is the last item delivered, and when the drain has ended exactly one
\* was delivered.
C2_OneTerminalLast ==
    cpc # "aborted" =>
        /\ \A i \in 1..Len(live) : IsTerminal(live[i]) => i = Len(live)
        /\ cpc = "done" => live # << >> /\ IsTerminal(live[Len(live)])

\* C3 (as stated): on the Redis provider the items yielded live are a prefix
\* of the items of the run's log.
C3_LivePrefixOfLog ==
    provider = "redis" => IsPrefix(live, LogItems(log))

\* C4 (as stated): a resume that has returned, of a run that is over, has
\* yielded exactly the items of the run's log, in log order.
C4_ResumeYieldsLog ==
    \A r \in Resumers :
        (rs[r] = "done" /\ RunOver) => rout[r] = LogItems(log)

C6_ResumeReplaysStreamStart ==
    \A r \in Resumers :
        rout[r] # << >> => IsStreamStart(rout[r][1]) /\ rout[r][1] = live[1]

\* the items the live subscriber received from the helper and the harness:
\* all but stream_start and aborted
FromRun(it) == ~IsStreamStart(it) /\ it # AbortedItem
LiveTail == IF live = << >> THEN << >> ELSE Tail(live)

\* C7: the items reach the queue, the live subscriber, the log and a resume
\* in the order the runner invoked the helper operations: what was put on
\* the queue (delivered or still queued) and what the subscriber received
\* are prefixes of the invocations, the log's items are the invocations in
\* order (a prefix when no write failed, else with the failed ones missing),
\* and a resume has yielded a prefix of the log's items.
C7_Order ==
    /\ IsPrefix(LiveTail \o QueueItems, emitted)
    /\ IsPrefix(SelectSeq(Out, FromRun), emitted)
    /\ IsSubseq(LogItems(log), emitted)
    /\ failures = 0 => IsPrefix(LogItems(log), emitted)
    /\ \A r \in Resumers : IsPrefix(rout[r], LogItems(log))

C7_Witness ==
    /\ provider = "redis"
    /\ Len(emitted) >= 2 /\ emitted[1] # emitted[2]
    /\ Len(live) >= 3 /\ live[2] = emitted[1] /\ live[3] = emitted[2]
    /\ Len(rout[1]) >= 2 /\ rout[1][1] = emitted[1] /\ rout[1][2] = emitted[2]

\* C8 (as stated): total_chunks of a stream_end in the run's log is the
\* number of chunk items in that log.
C8_TotalChunksEqualsLogChunks ==
    \A i \in 1..Len(LogItems(log)) :
        IsStreamEnd(LogItems(log)[i]) =>
            LogItems(log)[i].val = NumChunks(LogItems(log))

\* C9 (as stated): total_chunks of the stream_end delivered live is the
\* number of chunk items delivered live before it.
C9_TotalChunksEqualsLiveChunks ==
    \A i \in 1..Len(live) :
        IsStreamEnd(live[i]) =>
            live[i].val = NumChunks(SubSeq(live, 1, i - 1))

\* C10: two resumes of a run that was over when they were started end the
\* same way and have yielded the same item sequence, however their reads
\* interleave.
C10_ResumeIdempotent ==
    \A r, q \in Resumers :
        (rlate[r] /\ rlate[q] /\ Finished(r) /\ Finished(q))
            => rs[r] = rs[q] /\ rout[r] = rout[q]

C10_Witness ==
    /\ rlate[1] /\ rlate[2]
    /\ rs[1] = "done" /\ rs[2] = "done"
    /\ Len(rout[1]) >= 2

(* ------------------- recoverable and fatal errors ---------------------- *)
IsStreamError(it) == it.type = "special" /\ it.special = "stream_error"
IsFatal(it) == it.type = "special" /\ it.special = "stream_fatal_error"
IsRunnerError(it) == it = StreamFatalErrorItem("RUNNER_ERROR")
IsUserFatal(it) == IsFatal(it) /\ ~IsRunnerError(it)
Has(s, P(_)) == \E i \in 1..Len(s) : P(s[i])

\* the items the runner's own helper calls emitted, in call order: all but
\* the stream_end and the RUNNER_ERROR of run_stream
ByRunner(it) == ~IsStreamEnd(it) /\ ~IsRunnerError(it)
RunnerItems == SelectSeq(emitted, ByRunner)

\* the runner has returned
Returned == Has(emitted, IsStreamEnd)

\* C11: append_error does not terminate the run.  For a runner that made
\* helper calls without send_fatal_error_and_close and returned, once the
\* live drain has ended without abort the live sequence is stream_start,
\* then the item of every call in call order (every stream_error once, in
\* its place between the chunks), then stream_end; nothing follows the
\* stream_end when no Redis write failed.
C11_AppendErrorDoesNotTerminate ==
    (Returned /\ ~Has(emitted, IsUserFatal) /\ cpc = "done") =>
        LET k == Len(RunnerItems)
        IN  /\ Len(live) >= k + 2
            /\ SubSeq(live, 2, k + 1) = RunnerItems
            /\ IsStreamEnd(live[k + 2])
            /\ failures = 0 => Len(live) = k + 2

C11_Witness ==
    /\ provider = "redis" /\ cpc = "done"
    /\ Len(live) = 5
    /\ IsChunk(live[2]) /\ IsStreamError(live[3]) /\ IsChunk(live[4])
    /\ live[2] # live[4]
    /\ IsStreamEnd(live[5])

\* position in the invocation history of the first send_fatal_error_and_close
FirstUserFatal ==
    CHOOSE i \in 1..Len(emitted) :
        IsUserFatal(emitted[i]) /\ \A j \in 1..(i - 1) : ~IsUserFatal(emitted[j])

\* C12 (as stated): once the runner has called send_fatal_error_and_close,
\* no subscriber observes an item emitted after it: the live subscriber and
\* every resume have received items emitted up to the stream_fatal_error
\* only, and one that has ended (not by abort) has it as its last item.
C12_NothingAfterFatal ==
    Has(emitted, IsUserFatal) =>
        LET upto == SubSeq(emitted, 1, FirstUserFatal)
        IN  /\ IsPrefix(LiveTail, upto)
            /\ cpc = "done" => LiveTail = upto
            /\ \A r \in Resumers :
                  /\ IsSubseq(rout[r], upto)
                  /\ rs[r] = "done" =>
                        rout[r] # << >> /\ IsUserFatal(rout[r][Len(rout[r])])

\* the runner raised: run_stream's except clause emitted RUNNER_ERROR and the
\* runner had not returned (no stream_end was built before it)
RunnerRaised == Has(emitted, IsRunnerError) /\ ~Has(emitted, IsStreamEnd)

Last(s) == s[Len(s)]
RunnerErrorItem == StreamFatalErrorItem("RUNNER_ERROR")

\* what C13 says of a run whose runner raised: one RUNNER_ERROR item was
\* emitted; on Redis it is in the log by the time it is on the live queue,
\* it is on the live queue by the time the end marker follows it in the log,
\* and when run_stream is done the log ends with it and the end marker; the
\* live subscriber whose drain ended received it as its last item
RunnerErrorHandled ==
    /\ Len(SelectSeq(emitted, IsRunnerError)) = 1
    /\ provider = "redis" =>
          /\ Has(LiveTail \o QueueItems, IsRunnerError)
                => Has(LogItems(log), IsRunnerError)
          /\ (Len(log) >= 2 /\ Last(log) = EndEntry
                /\ log[Len(log) - 1] = DataEntry(RunnerErrorItem))
                => Has(LiveTail \o QueueItems, IsRunnerError)
          /\ rpc = "done" =>
                /\ Len(log) >= 2 /\ Last(log) = EndEntry
                /\ log[Len(log) - 1] = DataEntry(RunnerErrorItem)
    /\ cpc = "done" =>
          /\ IsRunnerError(Last(live))
          /\ Len(SelectSeq(live, IsRunnerError)) = 1

C14_InvalidInputRejected ==
    ~Validate(input) =>
        /\ cpc \in {"init", "rejected"}
        /\ live = << >> /\ queue = << >> /\ emitted = << >> /\ log = << >>
        /\ rpc = "none" /\ nops = 0 /\ chunk_count = 0

C14_Witness ==
    /\ cpc = "rejected"
    /\ ~Validate(input)
    /\ post.status # 0

\* C15 (as stated): a POST whose input fails the schema is answered 400
\* and no item is emitted.
C15_InvalidInputAnswered400 ==
    (post.status # 0 /\ post.has_input /\ post.router_stream_key \in RouterKeys
        /\ ~Validate(input))
        => post.status = 400 /\ live = << >>

\* C16 (as stated): a POST (with an input) whose router_stream_key is not in
\* the router is answered 404, no item is emitted and no runner invoked.
C16_UnknownStreamAnswered404 ==
    (post.status # 0 /\ post.has_input /\ post.router_stream_key # Missing
        /\ post.router_stream_key \notin RouterKeys)
        => post.status = 404 /\ live = << >> /\ rpc = "none"

\* the resume key a client takes from the stream_start it received
IssuedResumeKey == encode_resumption_token(TokenDict(live[1].token))

\* C17 (as stated): the token of stream_start holds the router_stream_key
\* of the POST that started the run, and a GET presenting it is answered
\* 200.
C17_TokenDispatches ==
    (provider = "redis" /\ live # << >>) =>
        /\ live[1].token[2] = post.router_stream_key
        /\ (get.present /\ get.resumeKey = IssuedResumeKey) => get.status = 200

\* a resume key that decodes to a dict with all four fields
WellFormed(k) ==
    /\ decode_resumption_token(k).ok
    /\ \A f \in TokenFields : decode_resumption_token(k).val.obj[f] # Missing

\* the Redis stream the key's token names does not exist
KeyAbsent(k) ==
    LET d == decode_resumption_token(k).val.obj
    IN  /\ ~(/\ d["stream_storage_id"] = stream_storage_id
             /\ d["stream_run_id"] = stream_run_id
             /\ log # << >>)
        /\ ~(/\ d["stream_storage_id"] = other_storage_id
             /\ d["stream_run_id"] = other_run_id)

\* C18: a resume on the Redis provider with a well-formed token whose stream
\* does not exist ends with STREAM_NOT_FOUND in its first step: it has
\* yielded no item, made no xread, and the log is as it was.
C18_ResumeNotFound ==
    /\ [][(/\ provider = "redis"
           /\ rs[1] = "idle" /\ rs'[1] # "idle"
           /\ WellFormed(get.resumeKey) /\ KeyAbsent(get.resumeKey))
            => /\ rs'[1] = "not_found"
               /\ get'.error = "STREAM_NOT_FOUND"
               /\ rout'[1] = << >> /\ attempts'[1] = 0 /\ last_id'[1] = 0
               /\ log' = log]_vars
    /\ [](rs[1] = "not_found" =>
            rout[1] = << >> /\ attempts[1] = 0 /\ last_id[1] = 0)

C18_Witness ==
    /\ rs[1] = "not_found"
    /\ get.error = "STREAM_NOT_FOUND"
    /\ WellFormed(get.resumeKey)
    /\ decode_resumption_token(get.resumeKey).val.obj["stream_run_id"] = "gone"
    /\ rout[1] = << >>
    /\ log # << >>

\* C19 (as stated): a GET whose resume ends with STREAM_NOT_FOUND is
\* answered 404, and no 200 event stream is opened for it.
C19_NotFoundAnswered404 ==
    get.error = "STREAM_NOT_FOUND" => get.status = 404

\* malformed base-64 (padding cut, or characters outside the alphabet),
\* malformed JSON, or JSON lacking one of the four fields
Malformed(k) ==
    \/ ~k.pad \/ k.junk
    \/ k.text.kind # "object"
    \/ \E f \in TokenFields : k.text.obj[f] = Missing

\* C20 (as stated): a GET presenting a malformed resume key is answered 400
\* and its resume yields no item.
C20_MalformedTokenRejected ==
    (get.status # 0 /\ get.present /\ Malformed(get.resumeKey))
        => get.status = 400 /\ rs[1] = "idle" /\ rout[1] = << >>

(* ------------------------ resumption token ----------------------------- *)
\* the valid tokens: dicts with all four fields
ValidTokens == {d \in TokenDicts : \A f \in TokenFields : d[f] # Missing}

\* the string is what encode_resumption_token gives for some valid token
IsEncoding(k) == \E t \in ValidTokens : k = encode_resumption_token(t)

\* decode(encode(t)) = t, field for field, for every valid token
RoundTrip ==
    \A t \in ValidTokens :
        LET back == decode_resumption_token(encode_resumption_token(t))
        IN  back.ok /\ \A f \in TokenFields : back.val.obj[f] = t[f]

\* C21 (as stated): encoding then decoding a token gives the token back, and
\* a presented string fails to decode exactly when it is not the encoding
\* of a valid token.
C21_TokenRoundTrip ==
    /\ RoundTrip
    /\ get.present =>
          (~decode_resumption_token(get.resumeKey).ok <=> ~IsEncoding(get.resumeKey))

(* --------------------------- cancellation ------------------------------ *)
IsAborted(it) == it.type = "aborted"

\* C22: the aborted item is produced by the caller facade only, as the last
\* item the live subscriber receives; it is never in the log, on the queue,
\* among the helper's emissions or in what a resume yields.
C22_AbortedNeverLogged ==
    /\ ~Has(LogItems(log), IsAborted)
    /\ ~Has(queue, IsAborted) /\ ~Has(emitted, IsAborted) /\ ~Has(live, IsAborted)
    /\ \A r \in Resumers : ~Has(rout[r], IsAborted)
    /\ \A i \in 1..Len(Out) :
          IsAborted(Out[i]) => i = Len(Out) /\ cpc \in {"aborted", "closed"} /\ aborted

C22_Witness ==
    /\ provider = "redis" /\ cpc = "aborted"
    /\ IsAborted(Last(Out))
    /\ log # << >> /\ Len(emitted) = 2
    /\ rs[1] = "done"

\* the facade has read an item with the signal set and left its loop
AbortObserved == cpc \in {"aborted", "closed"}

\* an item the facade receives while the signal is set is replaced by aborted
AbortedEmitted == [][(aborted /\ live' # live) => cpc' = "aborted"]_vars

\* after aborted nothing more is taken from the live queue
DrainStops == [][AbortObserved => (live' = live /\ chunk_count' = chunk_count)]_vars

\* a task still running when the abort is observed does not complete
RunnerCancelled == [][(AbortObserved /\ rpc # "done") => rpc' # "done"]_vars

\* C23 (as stated): once the abort signal of a live run is observed, aborted
\* is emitted, draining stops, and the run_stream task is cancelled at a
\* suspension point instead of running to completion.
C23_CancelStopsRunner == AbortedEmitted /\ DrainStops /\ RunnerCancelled

\* C24 (as stated): when the live transport of a started run drops, the
\* run's abort signal is set.
C24_DropSetsAbort == cpc = "dropped" => aborted

(* ---------------------- resume of a running stream --------------------- *)
\* reader r called resume_stream while the run_stream task was not over
ResumedWhileProducing(r) == rs[r] \in {"reading", "done", "limit"} /\ ~rlate[r]

\* what r was handed is the log's items from the first one on, in log order
ResumeInOrder ==
    \A r \in Resumers : ResumedWhileProducing(r) => IsPrefix(rout[r], LogItems(log))

\* r's generator ends only by returning after the run's terminal item
ResumeEndsAtTerminal ==
    \A r \in Resumers : ResumedWhileProducing(r) =>
        /\ rs[r] # "limit"
        /\ rs[r] = "done" => rout[r] # << >> /\ IsTerminal(Last(rout[r]))

\* C25 (as stated): a resume issued while the run is still producing yields
\* the log's items in order, those already there and those appended later,
\* and ends when the run's terminal item arrives.
C25_ResumeFollowsRun == ResumeInOrder /\ ResumeEndsAtTerminal

(* ---------------------- runs started side by side ---------------------- *)
\* the payloads the runner of run i has appended so far
RunChunks(i) == [k \in 1..runs[i].nops |-> RunPayload(i, k)]

\* the Redis stream a resume with run i's token reads
RunLog(i) == redis[make_stream_key(stream_storage_id, runs[i].stream_run_id)]

\* C26: of runs started side by side from one stream definition, each
\* subscriber's chunks are the payloads of its own runner in order, all of
\* them once the run is drained, and each run's Redis stream holds that
\* run's items only; nothing is written under a key that is no run's.
C26_RunsIsolated ==
    /\ \A i \in RunIx :
          /\ IsPrefix(ChunkPayloads(runs[i].live), RunChunks(i))
          /\ runs[i].cpc = "done" => ChunkPayloads(runs[i].live) = RunChunks(i)
          /\ \A n \in 1..Len(runs[i].live) :
                IsStreamStart(runs[i].live[n]) =>
                    runs[i].live[n].run_id = runs[i].stream_run_id
          /\ (provider = "redis" /\ runs[i].cpc # "init") =>
                ChunkPayloads(LogItems(RunLog(i))) = RunChunks(i)
    /\ \A key \in StreamKeys :
          redis[key] # << >> =>
              /\ provider = "redis"
              /\ \E i \in RunIx :
                    key = make_stream_key(stream_storage_id, runs[i].stream_run_id)

\* on Redis one run is over with all its chunks drained while every other
\* run is in the middle of its own
C26_Witness ==
    /\ provider = "redis"
    /\ runs[1].cpc = "done" /\ runs[1].nops = MaxRunChunks
    /\ \A i \in RunIx \ {1} :
          /\ runs[i].rpc = "runner" /\ runs[i].nops >= 1
          /\ NumChunks(runs[i].live) >= 1
          /\ RunLog(i) # << >>

(* ------------------------ token of stream_start ------------------------ *)
\* the provider's is_resumable
is_resumable == provider = "redis"

\* what decode_resumption_token gives for the token item it carries
DecodedToken(it) ==
    decode_resumption_token(encode_resumption_token(TokenDict(it.token)))

\* C27: a stream_start carries a token exactly on the resumable provider,
\* the token decodes to the stream definition's storage id and to the run id
\* of that stream_start, and no other item carries a token.
C27_TokenIffResumable ==
    \A n \in 1..Len(Out) :
        IF IsStreamStart(Out[n])
        THEN /\ (Out[n].token # NoToken) <=> is_resumable
             /\ is_resumable =>
                   /\ DecodedToken(Out[n]).ok
                   /\ DecodedToken(Out[n]).val.obj["provider_id"] = provider
                   /\ DecodedToken(Out[n]).val.obj["stream_storage_id"] = stream_storage_id
                   /\ DecodedToken(Out[n]).val.obj["stream_run_id"] = Out[n].run_id
        ELSE Out[n].token = NoToken

\* a finished run on each provider is a separate state; this is the Redis
\* one, the subscriber holding stream_start and a chunk
C27_Witness ==
    /\ is_resumable
    /\ Len(Out) >= 2 /\ IsStreamStart(Out[1]) /\ IsChunk(Out[2])
    /\ Out[1].token = ResumptionToken("redis")
    /\ cpc = "done"

\* the default provider's stream_start, received without a token
C27_WitnessDefault ==
    ~is_resumable /\ Out # << >> /\ IsStreamStart(Out[1]) /\ Out[1].token = NoToken

(* ----------------------- append before publish ------------------------- *)
\* the items handed to the live side so far: yielded already or on the queue
Published == live \o QueueItems

\* every chunk handed to the live side is in the log, in the same order
PublishedChunksInLog ==
    IsPrefix(ChunkPayloads(Published), ChunkPayloads(LogItems(log)))

\* between the two statements of append_chunk the chunk is the log's last
\* item and has not been handed to the live side
AppendedNotPublished ==
    /\ rpc = "p_item" /\ IsChunk(pend)
    /\ LogItems(log) # << >> /\ Last(LogItems(log)) = pend
    /\ NumChunks(LogItems(log)) = NumChunks(Published) + 1

IsEndMarker(e) == e.field = "end"

\* C29 (as stated): the log holds at most one terminal marker and no entry
\* after it.
C29_SingleMarkerLast ==
    \A k \in 1..Len(log) : IsEndMarker(log[k]) => k = Len(log)

(* ------------------------- where resume ends --------------------------- *)
\* the entry is the terminal marker, or holds stream_end or stream_fatal_error
EndsResume(e) ==
    \/ e.field = "end"
    \/ e.field = "data" /\ e.data.item.type = "special"
                        /\ e.data.item.special \in {"stream_end", "stream_fatal_error"}

\* position in the log of the first such entry; 0 when there is none yet
FirstEnd ==
    IF \E k \in 1..Len(log) : EndsResume(log[k])
    THEN CHOOSE k \in 1..Len(log) :
            EndsResume(log[k]) /\ \A j \in 1..(k - 1) : ~EndsResume(log[j])
    ELSE 0

\* C30: a reader is handed the items of the log entries up to where it has
\* read; it returns exactly when it reaches the first entry that is the
\* terminal marker (handing nothing over for it) or holds stream_end or
\* stream_fatal_error (handed over as the last item), and reads no further.
C30_ResumeEndsAtFirstEnd ==
    \A r \in Resumers :
        rs[r] \in {"reading", "done", "limit"} =>
            /\ rout[r] = LogItems(SubSeq(log, 1, last_id[r]))
            /\ FirstEnd # 0 => last_id[r] <= FirstEnd
            /\ rs[r] = "done" <=> (FirstEnd # 0 /\ last_id[r] = FirstEnd)
            /\ rs[r] = "done" =>
                  IF log[FirstEnd].field = "end"
                  THEN ~Has(rout[r], IsTerminal)
                  ELSE /\ Last(rout[r]) = log[FirstEnd].data.item
                       /\ ~Has(SubSeq(rout[r], 1, Len(rout[r]) - 1), IsTerminal)

\* a reader has returned after the stream_fatal_error while the log goes on
\* behind it with the marker and a later chunk
C30_Witness ==
    /\ rs[1] = "done"
    /\ rout[1] # << >> /\ IsFatal(Last(rout[1]))
    /\ Len(log) >= FirstEnd + 2
    /\ log[FirstEnd + 1].field = "end"
    /\ log[FirstEnd + 2].field = "data"

(* --------------------------- the safety cap ---------------------------- *)
\* C31: a reader makes at most max_attempts turns of its read loop; it is
\* ended by the PROVIDER error exactly when it has made them all without
\* reaching the terminal marker or a terminal item, and it has then been
\* handed the items of all the entries it read.
C31_ResumeCapped ==
    \A r \in Resumers :
        /\ attempts[r] <= max_attempts
        /\ rs[r] = "reading" => attempts[r] < max_attempts
        /\ rs[r] = "limit" <=>
              (attempts[r] = max_attempts /\ (FirstEnd = 0 \/ last_id[r] < FirstEnd))
        /\ rs[r] = "limit" =>
              /\ ~Has(rout[r], IsTerminal)
              /\ rout[r] = LogItems(SubSeq(log, 1, last_id[r]))

\* a reader of a run that is still going has been ended by the cap, holding
\* the chunk it read
C31_Witness ==
    /\ rs[1] = "limit" /\ attempts[1] = max_attempts
    /\ rout[1] # << >> /\ IsChunk(Last(rout[1]))
    /\ rpc \notin {"done", "cancelled"}

(* ------------------------ failed log appends --------------------------- *)
\* the runner is inside runner(context) and has called append_chunk and
\* append_error only
RunnerAppending ==
    /\ provider = "redis"
    /\ rpc \in {"runner", "sleep", "w_item", "p_item"}
    /\ ~Has(emitted, IsFatal)

\* the items of the helper calls that have returned to the runner
ReturnedCalls ==
    IF rpc \in {"w_item", "p_item"}
    THEN SubSeq(emitted, 1, Len(emitted) - 1)
    ELSE emitted

\* C32: whatever writes of append_chunk / append_error have failed, every
\* call has returned to the runner and what was handed to the live side is
\* stream_start followed by the item of every returned call, in call order.
C32_AppendFailureSwallowed ==
    RunnerAppending => Published = << StreamStartItem >> \o ReturnedCalls

\* the write of a chunk failed, the call returned to the runner and the chunk
\* was handed to the live side without being in the log
C32_Witness ==
    /\ RunnerAppending /\ rpc = "runner"
    /\ failures = 1 /\ nops = 1
    /\ emitted # << >> /\ IsChunk(emitted[1])
    /\ log = << >>
    /\ Published = << StreamStartItem, emitted[1] >>

(* ---------------------- failed marker writes --------------------------- *)
\* the step in which an xadd of the end marker fails
MarkEndFails ==
    rpc \in {"x_fatal", "x_end", "x_exc"} /\ failures' = failures + 1

\* C33 (as stated): a failed write of the terminal marker puts no new item
\* on the way to the live side, and the live queue is closed as it is after
\* a successful one.
C33_MarkEndFailureTolerated ==
    [][MarkEndFails =>
          (emitted' = emitted /\ queue' = Append(queue, NoneItem))]_vars

(* ----------------------- resume and the live path ---------------------- *)
\* a step of a resume reader
ResumeStep == << rs, last_id, attempts, rout >> # << rs, last_id, attempts, rout >>'

\* what the live path of the run is made of: the queue, what was drained
\* from it, the positions of consumer and task, the run's emissions and log
liveVars ==
    << cpc, live, queue, chunk_count, rpc, pend, nops, emitted, log, failures, aborted >>

\* C34: a step of a resume reader leaves the run's live queue, what the live
\* subscriber has been handed, and everything else of the run as it is.
C34_ResumeLeavesLivePath == [][ResumeStep => UNCHANGED liveVars]_vars

\* a reader has been handed the chunk that is at the head of the live queue,
\* still to be drained by the live subscriber
C34_Witness ==
    /\ rs[1] = "reading" /\ rout[1] # << >>
    /\ cpc = "drain" /\ queue # << >>
    /\ IsChunk(Head(queue)) /\ Last(rout[1]) = Head(queue)
    /\ Len(rout[1]) = NumChunks(LogItems(log))

(* ------------------- resume before the first append -------------------- *)
\* C35 (as stated): a resume with the token of a delivered stream_start,
\* begun while the run_stream task is not over, is not answered
\* STREAM_NOT_FOUND.
C35_RunningStreamFound ==
    \A r \in Resumers :
        (provider = "redis" /\ ~rlate[r]) => rs[r] # "not_found"

(* ---------------------- the live path after abort ---------------------- *)
\* C36: with the abort signal set, the only thing the subscriber is handed
\* is one aborted item, in place of the next item the facade receives; it is
\* the last item of the live sequence, and the only aborted item in it.
C36_NothingAfterAbort ==
    /\ [][aborted =>
             \/ Out' = Out
             \/ /\ cpc = "drain" /\ cpc' = "aborted"
                /\ Out' = Append(Out, AbortedItem)
                /\ live' = Append(live, Head(queue))]_vars
    /\ [](\A i \in 1..Len(Out) : IsAborted(Out[i]) => i = Len(Out))

\* the subscriber got aborted in place of a chunk that is in the log and that
\* a reader has been handed
C36_Witness ==
    /\ provider = "redis" /\ cpc = "aborted"
    /\ IsAborted(Last(Out)) /\ IsChunk(Last(live))
    /\ NumChunks(Out) = 0
    /\ Has(LogItems(log), IsChunk)
    /\ rout[1] # << >> /\ rout[1][1] = Last(live)

(* ------------------ the runner and the live subscriber ----------------- *)
\* the run_stream task is over and, if no write failed, the log ends with a
\* terminal item and the terminal marker
RunComplete ==
    /\ rpc = "done"
    /\ failures = 0 =>
          /\ Len(log) >= 2
          /\ log[Len(log)].field = "end"
          /\ log[Len(log) - 1].field = "data"
          /\ IsTerminal(JsonLoads(log[Len(log) - 1].data))

\* once the task exists, it runs to completion whatever the subscriber does
TaskRunsToCompletion == (provider = "redis" /\ rpc = "new") ~> RunComplete

\* C37 (as stated): on the Redis provider, from the delivery of stream_start
\* on, the run completes whether or not the live subscriber goes on reading.
C37_RunnerIndependent == (provider = "redis" /\ live # << >>) ~> RunComplete


\* the key's token decodes, and names a run that is not one of this stream
\* on this provider: another storage id, or another provider's id
NamesOtherRun(k) ==
    /\ decode_resumption_token(k).ok
    /\ LET d == decode_resumption_token(k).val.obj
       IN  \/ d["stream_storage_id"] \notin {stream_storage_id, Missing}
           \/ d["provider_id"] \notin {provider, Missing}

\* C38: a resume that came in through get_handler yields only items of this
\* run's log, and a key whose token names another stream's run or another
\* provider is rejected: the reader never reads and yields nothing.
C38_ForeignTokenRejected ==
    get.status = 200 =>
        /\ \E n \in 0..Len(log) : rout[1] = LogItems(SubSeq(log, 1, n))
        /\ NamesOtherRun(get.resumeKey) =>
              (rs[1] \notin {"reading", "done", "limit"} /\ rout[1] = << >>)


\* the place of an item in a sequence that holds it once; 0 when absent
PlaceOf(it, seq) ==
    IF \E k \in 1..Len(seq) : seq[k] = it
    THEN CHOOSE k \in 1..Len(seq) : seq[k] = it
    ELSE 0

\* C39: when concurrent tasks of a runner call the helper, any two of their
\* items that are both in the log and both handed to the live side stand in
\* the same order in the log as on the live side.
C39_SameOrderLogAndLive ==
    \A a, b \in {TaskItem(t) : t \in TaskIx} :
        (/\ PlaceOf(a, LogItems(log)) > 0
         /\ PlaceOf(b, LogItems(log)) > 0
         /\ PlaceOf(a, live \o queue) > 0
         /\ PlaceOf(b, live \o queue) > 0
         /\ PlaceOf(a, LogItems(log)) < PlaceOf(b, LogItems(log)))
            => PlaceOf(a, live \o queue) < PlaceOf(b, live \o queue)


\* the log is complete: it ends with a terminal item and the terminal marker
LogComplete ==
    /\ Len(log) >= 2
    /\ log[Len(log)] = EndEntry
    /\ log[Len(log) - 1].field = "data"
    /\ IsTerminal(JsonLoads(log[Len(log) - 1].data))

\* C40: a resume started on a finished run whose log is complete never ends
\* with the "Resume safety limit reached" error, however many entries the
\* log holds.
C40_CompleteLogNeverLimit ==
    \A r \in Resumers : (rlate[r] /\ LogComplete) => rs[r] # "limit"

====
